---------------------------- MODULE Spec2Model ----------------------------
(***************************************************************************)
(* kh-timelines: the timeline plugin (main.ts, settings.ts).                *)
(*                                                                         *)
(* Texts are sequences of one-character strings.  The text functions       *)
(* (trim, split, join, parseHeader, parseTimelineSource, escapeHtml) are    *)
(* operators computed the way the source computes them.  The plugin's      *)
(* run time (onload, the settings tab's handlers, the code block           *)
(* processor, the conversion command) is a state machine whose steps are    *)
(* the synchronous runs between two awaits.                                 *)
(***************************************************************************)
EXTENDS Integers, Sequences, FiniteSets, TLC

(***************************************************************************)
(* Bounds of the model.                                                    *)
(***************************************************************************)
\* longest input text of the parser checks
MaxLen == 5
\* longest input text of the escaping checks
MaxEscLen == 4
\* most entries of a source the code block processor renders
MaxEntries == 2
\* most timeline blocks of a document
MaxBlocks == 2
\* most show-markers handlers suspended in saveSettings at once
MaxSaving == 1

(***************************************************************************)
(* Characters and JavaScript string primitives.                            *)
(***************************************************************************)
NL == "\n"

\* the characters String.prototype.trim and the regex class \s remove
WhiteSpace == {" ", NL, "\t", "\r"}

\* the backquote character (a TLA+ string cannot hold one: a stand-in names it)
BackTick == "backtick"

Digits == {"0", "1", "2", "3", "4", "5", "6", "7", "8", "9"}

\* the value of an optional field that is absent (undefined)
Undefined == <<"undefined">>

RECURSIVE TrimStart(_)
TrimStart(s) ==
    IF s # <<>> /\ Head(s) \in WhiteSpace THEN TrimStart(Tail(s)) ELSE s

RECURSIVE TrimEnd(_)
TrimEnd(s) ==
    IF s # <<>> /\ s[Len(s)] \in WhiteSpace
    THEN TrimEnd(SubSeq(s, 1, Len(s) - 1))
    ELSE s

\* String.prototype.trim
Trim(s) == TrimEnd(TrimStart(s))

\* s.startsWith(p)
StartsWith(s, p) == Len(p) <= Len(s) /\ SubSeq(s, 1, Len(p)) = p

\* s.slice(n): s without its first n characters
Drop(s, n) == SubSeq(s, n + 1, Len(s))

\* s.split(sep) for a non-empty separator string: the pieces between the
\* occurrences of sep, found left to right without overlap
RECURSIVE SplitFrom(_, _, _)
SplitFrom(s, sep, cur) ==
    IF s = <<>> THEN <<cur>>
    ELSE IF StartsWith(s, sep)
         THEN <<cur>> \o SplitFrom(Drop(s, Len(sep)), sep, <<>>)
         ELSE SplitFrom(Tail(s), sep, Append(cur, Head(s)))

Split(s, sep) == SplitFrom(s, sep, <<>>)

\* parts.join(sep)
RECURSIVE Join(_, _)
Join(parts, sep) ==
    IF parts = <<>> THEN <<>>
    ELSE IF Len(parts) = 1 THEN parts[1]
         ELSE parts[1] \o sep \o Join(Tail(parts), sep)

\* the length of the run of line breaks s starts with
RECURSIVE NewlineRun(_)
NewlineRun(s) ==
    IF s # <<>> /\ Head(s) = NL THEN 1 + NewlineRun(Tail(s)) ELSE 0

\* s.split(/\n{2,}/): the pieces between the maximal runs of two or more
\* line breaks
RECURSIVE SplitBlankFrom(_, _)
SplitBlankFrom(s, cur) ==
    IF s = <<>> THEN <<cur>>
    ELSE IF NewlineRun(s) >= 2
         THEN <<cur>> \o SplitBlankFrom(Drop(s, NewlineRun(s)), <<>>)
         ELSE SplitBlankFrom(Tail(s), Append(cur, Head(s)))

SplitBlankLines(s) == SplitBlankFrom(s, <<>>)

\* parts.slice(1)
Rest(parts) == IF parts = <<>> THEN <<>> ELSE Tail(parts)

\* JavaScript truthiness of an optional string: undefined and '' are falsy
Truthy(x) == x # Undefined /\ x # <<>>

\* value.length > 0 ? value : undefined
OrUndefined(x) == IF Len(x) > 0 THEN x ELSE Undefined

(***************************************************************************)
(* The header parser.                                                      *)
(***************************************************************************)
\* s starts with one or more digits followed by a period: /^\d+\./
RECURSIVE DigitsThenDot(_, _)
DigitsThenDot(s, seen) ==
    IF s = <<>> THEN FALSE
    ELSE IF Head(s) \in Digits THEN DigitsThenDot(Tail(s), TRUE)
         ELSE seen /\ Head(s) = "."

\* the regex test of line 159: three backquotes, or ">" and white space, or
\* one of "-", "*", "+" and white space, or digits and a period
MatchesBodyStart(t) ==
    \/ StartsWith(t, <<BackTick, BackTick, BackTick>>)
    \/ Len(t) >= 2 /\ t[1] = ">" /\ t[2] \in WhiteSpace
    \/ Len(t) >= 2 /\ t[1] \in {"-", "*", "+"} /\ t[2] \in WhiteSpace
    \/ DigitsThenDot(t, FALSE)

isLikelyBodyStart(line) ==
    LET trimmed == Trim(line)
    IN  IF Len(trimmed) = 0 THEN TRUE
        ELSE MatchesBodyStart(trimmed)

\* a header split into date and title at the first occurrence of sep
HeaderAt(headerLine, sep) ==
    LET parts == Split(headerLine, sep)
    IN  [date  |-> OrUndefined(Trim(parts[1])),
         title |-> OrUndefined(Trim(Join(Rest(parts), sep)))]

\* the mutant of parseHeader: the dash separator tried before the pipe
parseHeaderDashFirst(headerLine) ==
    IF Len(Split(headerLine, <<" ", "-", " ">>)) >= 2
    THEN HeaderAt(headerLine, <<" ", "-", " ">>)
    ELSE IF Len(Split(headerLine, <<"|">>)) >= 2
         THEN HeaderAt(headerLine, <<"|">>)
         ELSE [date |-> Undefined, title |-> OrUndefined(Trim(headerLine))]

parseHeader(headerLine) ==
    IF Len(Split(headerLine, <<"|">>)) >= 2
    THEN HeaderAt(headerLine, <<"|">>)
    ELSE IF Len(Split(headerLine, <<" ", "-", " ">>)) >= 2
         THEN HeaderAt(headerLine, <<" ", "-", " ">>)
         ELSE [date |-> Undefined, title |-> OrUndefined(Trim(headerLine))]

(***************************************************************************)
(* The block segmenter.                                                    *)
(***************************************************************************)
\* blocks.map(block => block.trim()).filter(Boolean)
RECURSIVE TrimmedNonEmpty(_)
TrimmedNonEmpty(blocks) ==
    IF blocks = <<>> THEN <<>>
    ELSE IF Trim(Head(blocks)) = <<>> THEN TrimmedNonEmpty(Tail(blocks))
         ELSE <<Trim(Head(blocks))>> \o TrimmedNonEmpty(Tail(blocks))

\* the blocks of a source text, in order
BlocksOf(source) ==
    IF Len(Trim(source)) = 0 THEN <<>>
    ELSE TrimmedNonEmpty(SplitBlankLines(Trim(source)))

\* the first line of a block, trimmed
HeaderLineOf(block) == Trim(Split(block, <<NL>>)[1])

\* the lines after the first, rejoined and trimmed
BodyLinesOf(block) == Trim(Join(Rest(Split(block, <<NL>>)), <<NL>>))

\* one pass of the loop over the blocks: the entry of one block
EntryOf(block) ==
    LET headerLine == HeaderLineOf(block)
        bodyLines  == BodyLinesOf(block)
        h          == parseHeader(headerLine)
        body       == IF Len(bodyLines) > 0 THEN bodyLines ELSE <<>>
    IN  IF isLikelyBodyStart(headerLine)
        THEN [date |-> Undefined, title |-> Undefined, body |-> block]
        ELSE IF ~Truthy(h.date) /\ ~Truthy(h.title) /\ Len(body) = 0
             THEN [date |-> Undefined, title |-> Undefined, body |-> block]
             ELSE [date |-> h.date, title |-> h.title, body |-> body]

parseTimelineSource(source) ==
    LET blocks == BlocksOf(source)
    IN  [i \in 1..Len(blocks) |-> EntryOf(blocks[i])]

(***************************************************************************)
(* Escaping.                                                               *)
(***************************************************************************)
\* value.replace(/c/g, repl) for a one-character pattern
RECURSIVE ReplaceAll(_, _, _)
ReplaceAll(s, c, repl) ==
    IF s = <<>> THEN <<>>
    ELSE (IF Head(s) = c THEN repl ELSE <<Head(s)>>)
         \o ReplaceAll(Tail(s), c, repl)

AmpEntity  == <<"&", "a", "m", "p", ";">>
LtEntity   == <<"&", "l", "t", ";">>
GtEntity   == <<"&", "g", "t", ";">>
QuotEntity == <<"&", "q", "u", "o", "t", ";">>
AposEntity == <<"&", "#", "3", "9", ";">>

\* the mutant of escapeHtml: the ampersand replaced last instead of first
escapeHtmlAmpLast(value) ==
    ReplaceAll(
      ReplaceAll(
        ReplaceAll(
          ReplaceAll(
            ReplaceAll(value, "<", LtEntity),
            ">", GtEntity),
          "\"", QuotEntity),
        "'", AposEntity),
      "&", AmpEntity)

escapeHtml(value) ==
    ReplaceAll(
      ReplaceAll(
        ReplaceAll(
          ReplaceAll(
            ReplaceAll(value, "&", AmpEntity),
            "<", LtEntity),
          ">", GtEntity),
        "\"", QuotEntity),
      "'", AposEntity)

(***************************************************************************)
(* Settings.                                                               *)
(***************************************************************************)
DEFAULT_SETTINGS ==
    [showMarkers |-> TRUE, defaultDateLabel |-> <<"D", "a", "t", "e">>]

\* Object.assign({}, DEFAULT_SETTINGS, data): the stored fields override
\* the defaults; a field the data file lacks is Undefined here
loadSettings(data) ==
    [showMarkers |->
        IF data.showMarkers = "absent" THEN DEFAULT_SETTINGS.showMarkers
        ELSE data.showMarkers = "true",
     defaultDateLabel |->
        IF data.defaultDateLabel = Undefined
        THEN DEFAULT_SETTINGS.defaultDateLabel
        ELSE data.defaultDateLabel]

\* classList.toggle(hideMarkersClass, !settings.showMarkers): whether the
\* body carries the class afterwards
applyMarkerVisibility(s) == ~s.showMarkers

(***************************************************************************)
(* The rendering rules both renderers apply to one entry.                  *)
(***************************************************************************)
\* entry.date ?? (fallbackDate.length > 0 ? fallbackDate : undefined)
DateText(entry, s) ==
    LET fallbackDate == Trim(s.defaultDateLabel)
    IN  IF entry.date # Undefined THEN entry.date
        ELSE IF Len(fallbackDate) > 0 THEN fallbackDate ELSE Undefined

\* the outcomes of one MarkdownRenderer.renderMarkdown call: markup, markup
\* that is empty after trimming, or a rejection
ProseResults == {"html", "blank", "fail"}

\* 'No timeline entries found.'
EmptyMessage ==
    <<"N", "o", " ", "t", "i", "m", "e", "l", "i", "n", "e", " ",
      "e", "n", "t", "r", "i", "e", "s", " ", "f", "o", "u", "n", "d", ".">>

(***************************************************************************)
(* The live renderer: a tree of nodes.                                     *)
(***************************************************************************)
Node(cls, text, children) ==
    [cls |-> cls, text |-> text, children |-> children]

\* the nodes of one entry (the loop body up to the renderMarkdown call)
LiveItem(entry, s) ==
    LET dateText == DateText(entry, s)
        marker == IF s.showMarkers
                  THEN <<Node("timeline-marker", <<>>, <<>>)>> ELSE <<>>
        date == IF Truthy(dateText)
                THEN <<Node("timeline-date", dateText, <<>>)>> ELSE <<>>
        title == IF Truthy(entry.title)
                 THEN <<Node("timeline-title", entry.title, <<>>)>> ELSE <<>>
        meta == IF Truthy(dateText) \/ Truthy(entry.title)
                THEN <<Node("timeline-meta", <<>>, date \o title)>> ELSE <<>>
        bodyEl == <<Node("timeline-body", <<>>, <<>>)>>
    IN  Node("timeline-item", <<>>,
             marker \o <<Node("timeline-content", <<>>, meta \o bodyEl)>>)

\* the mutant of AwaitRender: the call is started and not awaited
FireAndForget(inv) == inv

\* await MarkdownRenderer.renderMarkdown(...): the invocation is suspended
\* in its call
AwaitRender(inv) == [inv EXCEPT !.pc = "await"]

\* the loop of renderTimelineEntries from entry l.i on, up to the next
\* renderMarkdown call that suspends it or to its end
RECURSIVE LiveLoop(_, _)
LiveLoop(l, s) ==
    IF l.i > Len(l.entries) THEN [l EXCEPT !.pc = "done"]
    ELSE LET entry == l.entries[l.i]
             added == [l EXCEPT !.container =
                                   Append(@, LiveItem(entry, s))]
         IN  IF Len(Trim(entry.body)) > 0
             THEN LET called == AwaitRender(
                                  [added EXCEPT !.calls = @ \cup {l.i}])
                  IN  IF called.pc = "await" THEN called
                      ELSE LiveLoop([called EXCEPT !.i = @ + 1], s)
             ELSE LiveLoop([added EXCEPT !.i = @ + 1], s)

\* renderTimelineEntries from its first line to its first suspension
LiveBegin(l, s) ==
    IF Len(l.entries) = 0
    THEN [l EXCEPT !.pc = "done",
                   !.container =
                       <<Node("timeline-empty", EmptyMessage, <<>>)>>]
    ELSE LiveLoop(
           [l EXCEPT !.container =
                IF s.showMarkers
                THEN <<Node("timeline-start-marker", <<>>, <<>>)>>
                ELSE <<>>],
           s)

\* the body element of the last item filled with the rendered prose
FillBody(container, rendered) ==
    LET n == Len(container)
        item == container[n]
        c == Len(item.children)
        content == item.children[c]
        b == Len(content.children)
    IN  [container EXCEPT ![n].children[c].children[b].text = rendered]

\* the class labels of a tree of nodes, in document order
RECURSIVE Labels(_)
Labels(nodes) ==
    IF nodes = <<>> THEN <<>>
    ELSE <<Head(nodes).cls>> \o Labels(Head(nodes).children)
         \o Labels(Tail(nodes))

(***************************************************************************)
(* The static renderer: a markup string, a sequence of tokens.             *)
(***************************************************************************)
Open(cls)  == [k |-> "open", cls |-> cls, txt |-> <<>>]
Close      == [k |-> "close", cls |-> "", txt |-> <<>>]
Text(s)    == [k |-> "text", cls |-> "", txt |-> s]
Prose(s)   == [k |-> "prose", cls |-> "", txt |-> s]

\* the markup of one entry up to its body (lines 184 to 201)
HtmlItemHead(entry, s) ==
    LET dateText == DateText(entry, s)
        marker == IF s.showMarkers
                  THEN <<Open("timeline-marker"), Close>> ELSE <<>>
        date == IF Truthy(dateText)
                THEN <<Open("timeline-date"), Text(escapeHtml(dateText)),
                       Close>>
                ELSE <<>>
        title == IF Truthy(entry.title)
                 THEN <<Open("timeline-title"),
                        Text(escapeHtml(entry.title)), Close>>
                 ELSE <<>>
        meta == IF Truthy(dateText) \/ Truthy(entry.title)
                THEN <<Open("timeline-meta")>> \o date \o title \o <<Close>>
                ELSE <<>>
    IN  <<Open("timeline-item")>> \o marker
        \o <<Open("timeline-content")>> \o meta

\* the body block of an entry from what renderMarkdown left in bodyHost
HtmlBody(body, result) ==
    IF result = "html"
    THEN <<Open("timeline-body"), Prose(body), Close>>
    ELSE <<>>

\* the loop of renderTimelineHtml from entry h.i on, up to the next
\* renderMarkdown call that suspends it or to its end
RECURSIVE HtmlLoop(_, _)
HtmlLoop(h, s) ==
    IF h.i > Len(h.entries)
    THEN [h EXCEPT !.pc = "done", !.html = @ \o <<Close>>]
    ELSE LET entry == h.entries[h.i]
             added == [h EXCEPT !.html = @ \o HtmlItemHead(entry, s)]
         IN  IF Len(Trim(entry.body)) > 0
             THEN LET called == AwaitRender(
                                  [added EXCEPT !.calls = @ \cup {h.i}])
                  IN  IF called.pc = "await" THEN called
                      ELSE HtmlLoop([called EXCEPT !.i = @ + 1,
                                                   !.html = @ \o <<Close, Close>>],
                                    s)
             ELSE HtmlLoop([added EXCEPT !.i = @ + 1,
                                         !.html = @ \o <<Close, Close>>], s)

\* renderTimelineHtml from its first line to its first suspension
HtmlBegin(h, s) ==
    IF Len(h.entries) = 0
    THEN [h EXCEPT !.pc = "done",
                   !.html = <<Open("timeline"), Open("timeline-empty"),
                              Text(EmptyMessage), Close, Close>>]
    ELSE HtmlLoop(
           [h EXCEPT !.html =
                <<Open("timeline")>> \o
                (IF s.showMarkers
                 THEN <<Open("timeline-start-marker"), Close>> ELSE <<>>)],
           s)

\* renderTimelineHtml after its renderMarkdown call has settled
HtmlResume(h, result, s) ==
    IF result = "fail" THEN [h EXCEPT !.pc = "rejected"]
    ELSE HtmlLoop(
           [h EXCEPT !.pc = "run",
                     !.html = @ \o HtmlBody(Trim(h.entries[h.i].body), result)
                                \o <<Close, Close>>,
                     !.i = @ + 1],
           s)

\* the class labels of the opening tags of a markup string, in order
RECURSIVE OpenLabels(_)
OpenLabels(html) ==
    IF html = <<>> THEN <<>>
    ELSE (IF Head(html).k = "open" THEN <<Head(html).cls>> ELSE <<>>)
         \o OpenLabels(Tail(html))

(***************************************************************************)
(* The conversion command: a document is a sequence of pieces, plain text  *)
(* or a fenced timeline block with its source.                             *)
(***************************************************************************)
TextPiece == [kind |-> "text", source |-> <<>>, html |-> <<>>]
BlockPiece(source) == [kind |-> "block", source |-> source, html |-> <<>>]
HtmlPiece(html) == [kind |-> "html", source |-> <<>>, html |-> html]

\* timelineRegex.exec(content): the first timeline block after lastIndex,
\* 0 when there is none
NextMatch(content, lastIndex) ==
    LET at == {j \in (lastIndex + 1)..Len(content) :
                  content[j].kind = "block"}
    IN  IF at = {} THEN 0 ELSE CHOOSE j \in at : \A k \in at : j <= k

\* an invocation record of a renderer before it is called
RenderIdle ==
    [pc |-> "idle", entries |-> <<>>, i |-> 1, container |-> <<>>,
     html |-> <<>>, calls |-> {}, results |-> <<>>,
     cfg0 |-> DEFAULT_SETTINGS, changed |-> FALSE]

\* the call of a renderer on a source text
RenderCall(source, s) ==
    [RenderIdle EXCEPT !.pc = "run",
                       !.entries = parseTimelineSource(source),
                       !.cfg0 = s]

\* the mutant of ConvTake: the block is not counted
ConvTakeUncounted(c, html) ==
    [c EXCEPT !.output = Append(@, HtmlPiece(html)),
              !.lastIndex = c.match]

\* lines 79 to 81: the rendering of the matched block taken into the output
ConvTake(c, html) ==
    [c EXCEPT !.output = Append(@, HtmlPiece(html)),
              !.lastIndex = c.match,
              !.replacedCount = @ + 1]

\* the loop of convertTimelineBlocksToHtml and what follows it, up to the
\* next suspension: in a renderMarkdown call of renderTimelineHtml, in
\* vault.modify, or the end with the notice that nothing was found
RECURSIVE ConvLoop(_, _, _)
ConvLoop(c, h, s) ==
    LET m == NextMatch(c.content, c.lastIndex)
    IN  IF m = 0
        THEN IF c.replacedCount = 0
             THEN [c |-> [c EXCEPT !.pc = "done"], h |-> h]
             ELSE [c |-> [c EXCEPT !.pc = "modify",
                                   !.output = @ \o SubSeq(c.content,
                                                          c.lastIndex + 1,
                                                          Len(c.content))],
                   h |-> h]
        ELSE LET sliced == [c EXCEPT !.output = @ \o SubSeq(c.content,
                                                            c.lastIndex + 1,
                                                            m - 1),
                                     !.match = m]
                 r == HtmlBegin(RenderCall(c.content[m].source, s), s)
             IN  IF r.pc = "done"
                 THEN ConvLoop(ConvTake(sliced, r.html), r, s)
                 ELSE [c |-> [sliced EXCEPT !.pc = "render"], h |-> r]

ConvIdle ==
    [pc |-> "idle", content |-> <<>>, lastIndex |-> 0, match |-> 0,
     output |-> <<>>, replacedCount |-> 0]

(***************************************************************************)
(* State.                                                                  *)
(***************************************************************************)
VARIABLES
    input,      \* the text handed to a text function
    pcText,     \* which text function has been applied to input
    header,     \* the result of parseHeader(input)
    parsed,     \* the result of parseTimelineSource(input)
    escaped,    \* the result of escapeHtml(input)
    plugin,     \* the plugin's life cycle: constructed, loaded, unloaded
    settings,   \* TimelinePlugin.settings
    bodyClass,  \* document.body carries the class timeline-hide-markers
    saving,     \* show-markers handlers suspended in saveSettings
    live,       \* the code block processor's render invocation
    conv,       \* the conversion command's invocation
    stat,       \* the renderTimelineHtml invocation the conversion awaits
    file,       \* the active file: its content and the writes made to it
    notices     \* the notices shown, in order

textVars == <<input, pcText, header, parsed, escaped>>

pluginVars == <<plugin, settings, bodyClass, saving>>

renderVars == <<live, conv, stat, file, notices>>

vars == <<textVars, pluginVars, renderVars>>

(***************************************************************************)
(* The text functions applied to every bounded input.                      *)
(***************************************************************************)
\* the texts of at most n characters of a character set
TextsUpTo(chars, n) == UNION {[1..k -> chars] : k \in 0..n}

\* the characters of the parser's inputs
ParseChars == {"a", "|", "-", " ", NL, "1", "."}

\* the characters of the escaping inputs
EscapeChars == {"&", "<", ">", "\"", "'", "l", "t", ";", "a"}

TextIdle ==
    /\ pcText = "input"
    /\ header = [date |-> Undefined, title |-> Undefined]
    /\ parsed = <<>>
    /\ escaped = <<>>

\* the block texts of the sources of several entries: a date and a title
\* without a body, a title and a body without a date
BlockTexts ==
    {<<"a", "|", "b">>, <<"b", NL, "c">>}

\* the source texts of at most n blocks, separated by blank lines
RECURSIVE SourcesOf(_)
SourcesOf(n) ==
    IF n = 0 THEN {<<>>}
    ELSE SourcesOf(n - 1)
         \cup {b : b \in BlockTexts}
         \cup {src \o <<NL, NL>> \o b :
                  src \in SourcesOf(n - 1) \ {<<>>}, b \in BlockTexts}

\* the sources of up to MaxEntries entries
LiveSources == SourcesOf(MaxEntries)

\* the sources of the timeline blocks of the documents with several
\* blocks: no entry, a title and a body
DocSources ==
    {<<" ">>, <<"b", NL, "c">>}

\* the documents: text, then each timeline block followed by text
RECURSIVE DocOf(_)
DocOf(sources) ==
    IF sources = <<>> THEN <<TextPiece>>
    ELSE <<TextPiece, BlockPiece(Head(sources))>> \o DocOf(Tail(sources))

\* a document of one block for every source of up to MaxEntries entries and
\* for a list item (body content only), and the documents of up to
\* MaxBlocks blocks
Docs ==
    {DocOf(<<src>>) : src \in LiveSources \cup {<<"-", " ", "c">>}}
    \cup {DocOf(f) : f \in UNION {[1..k -> DocSources] : k \in 0..MaxBlocks}}

\* what the data file may hold
StoredData ==
    [showMarkers : {"absent", "true", "false"},
     defaultDateLabel : {Undefined, <<>>}]

\* what the user may type as the default date label
LabelInputs == {<<" ">>, <<"D", "a", "t", "e">>}

PluginIdle ==
    /\ plugin = "constructed"
    /\ settings = DEFAULT_SETTINGS
    /\ bodyClass = FALSE
    /\ saving = 0

RenderersIdle ==
    /\ live = RenderIdle
    /\ stat = RenderIdle
    /\ conv = ConvIdle
    /\ notices = <<>>

\* the plugin constructed and not yet loaded (settings is unset until
\* onload: the defaults stand for it), with a document in the active file
Init ==
    /\ input = <<>>
    /\ TextIdle
    /\ PluginIdle
    /\ RenderersIdle
    /\ file \in [content : Docs, writes : {0}]

InitParse ==
    /\ input \in TextsUpTo(ParseChars, MaxLen)
    /\ TextIdle
    /\ PluginIdle
    /\ RenderersIdle
    /\ file = [content |-> <<>>, writes |-> 0]

InitEscape ==
    /\ input \in TextsUpTo(EscapeChars, MaxEscLen)
    /\ TextIdle
    /\ PluginIdle
    /\ RenderersIdle
    /\ file = [content |-> <<>>, writes |-> 0]

CallParseHeader ==
    /\ pcText = "input"
    /\ header' = parseHeader(input)
    /\ pcText' = "parseHeader"
    /\ UNCHANGED <<input, parsed, escaped, pluginVars, renderVars>>

CallParseTimelineSource ==
    /\ pcText = "input"
    /\ parsed' = parseTimelineSource(input)
    /\ pcText' = "parseTimelineSource"
    /\ UNCHANGED <<input, header, escaped, pluginVars, renderVars>>

CallEscapeHtml ==
    /\ pcText = "input"
    /\ escaped' = escapeHtml(input)
    /\ pcText' = "escapeHtml"
    /\ UNCHANGED <<input, header, parsed, pluginVars, renderVars>>

(***************************************************************************)
(* The plugin: onload, unload and the settings tab's handlers.             *)
(***************************************************************************)
\* a renderer suspended in renderMarkdown notes that the settings changed
Noting(inv, s) ==
    IF inv.pc = "await" /\ s # settings
    THEN [inv EXCEPT !.changed = TRUE]
    ELSE inv

\* onload: loadSettings, applyMarkerVisibility, then the settings tab, the
\* command and the code block processor are registered
onload ==
    /\ plugin = "constructed"
    /\ \E data \in StoredData :
          /\ settings' = loadSettings(data)
          /\ bodyClass' = applyMarkerVisibility(loadSettings(data))
    /\ plugin' = "loaded"
    /\ UNCHANGED <<saving, textVars, renderVars>>

\* the callback registered at line 45, run when the plugin is unloaded
onunload ==
    /\ plugin = "loaded"
    /\ plugin' = "unloaded"
    /\ bodyClass' = FALSE
    /\ UNCHANGED <<settings, saving, textVars, renderVars>>

\* the toggle's onChange up to its await (settings.ts 33 to 35)
showMarkersChanged ==
    /\ plugin = "loaded"
    /\ saving < MaxSaving
    /\ \E value \in BOOLEAN :
          LET s == [settings EXCEPT !.showMarkers = value]
          IN  /\ settings' = s
              /\ live' = Noting(live, s)
              /\ stat' = Noting(stat, s)
    /\ saving' = saving + 1
    /\ UNCHANGED <<plugin, bodyClass, conv, file, notices, textVars>>

\* the toggle's onChange after saveSettings (settings.ts 36 to 37)
showMarkersSaved ==
    /\ saving > 0
    /\ saving' = saving - 1
    /\ bodyClass' = applyMarkerVisibility(settings)
    /\ UNCHANGED <<plugin, settings, textVars, renderVars>>

\* the text field's onChange (settings.ts 48 to 51): what follows its await
\* (refreshTimelineViews) changes no state of the plugin
defaultDateLabelChanged ==
    /\ plugin = "loaded"
    /\ \E value \in LabelInputs :
          LET s == [settings EXCEPT !.defaultDateLabel = Trim(value)]
          IN  /\ settings' = s
              /\ live' = Noting(live, s)
              /\ stat' = Noting(stat, s)
    /\ UNCHANGED <<plugin, bodyClass, saving, conv, file, notices, textVars>>

(***************************************************************************)
(* The code block processor and renderTimelineEntries.                     *)
(***************************************************************************)
\* no render invocation has been made: a behaviour follows one invocation,
\* a preview or a conversion (invocations share only the settings, which
\* they do not write)
NoInvocation == live.pc = "idle" /\ conv.pc = "idle"

\* the processor called on a timeline code block of the document (lines 39
\* to 43), up to the first suspension of renderTimelineEntries
codeBlockProcessor ==
    /\ plugin = "loaded"
    /\ NoInvocation
    /\ \E j \in 1..Len(file.content) :
          /\ file.content[j].kind = "block"
          /\ live' = LiveBegin(RenderCall(file.content[j].source, settings),
                               settings)
    /\ UNCHANGED <<conv, stat, file, notices, textVars, pluginVars>>

\* a renderMarkdown call of renderTimelineEntries settles, and the renderer
\* goes on when it awaits that call
liveRenderSettles ==
    /\ \E idx \in live.calls, result \in ProseResults :
          LET settled == [live EXCEPT !.calls = @ \ {idx},
                                      !.results = Append(@, result)]
          IN  live' =
                IF ~(live.pc = "await" /\ live.i = idx) THEN settled
                ELSE IF result = "fail"
                     THEN [settled EXCEPT !.pc = "rejected"]
                     ELSE LiveLoop(
                            [settled EXCEPT
                               !.pc = "run",
                               !.container =
                                   IF result = "html"
                                   THEN FillBody(@, Trim(live.entries[idx].body))
                                   ELSE @,
                               !.i = @ + 1],
                            settings)
    /\ UNCHANGED <<conv, stat, file, notices, textVars, pluginVars>>

(***************************************************************************)
(* The conversion command.                                                 *)
(***************************************************************************)
NoneFoundNotice == [msg |-> "No timeline code blocks found", count |-> 0]
ConvertedNotice(n) == [msg |-> "Converted", count |-> n]

\* the notice new Notice(...) of line 85 adds when the loop found nothing
NoticesAfter(c) ==
    IF c.pc = "done" /\ c.replacedCount = 0
    THEN Append(notices, NoneFoundNotice)
    ELSE notices

\* the command's checkCallback (lines 26 to 35) on the active file, up to
\* the await of vault.read
convertCommand ==
    /\ plugin = "loaded"
    /\ NoInvocation
    /\ conv' = [ConvIdle EXCEPT !.pc = "read"]
    /\ UNCHANGED <<live, stat, file, notices, textVars, pluginVars>>

\* vault.read settles: the loop runs up to its next suspension
vaultReadSettles ==
    /\ conv.pc = "read"
    /\ LET r == ConvLoop([conv EXCEPT !.content = file.content], stat,
                         settings)
       IN  /\ conv' = r.c
           /\ stat' = r.h
           /\ notices' = NoticesAfter(r.c)
    /\ UNCHANGED <<live, file, textVars, pluginVars>>

\* a renderMarkdown call of renderTimelineHtml settles; when the renderer
\* awaits it, it goes on, and on its return so does the conversion
staticRenderSettles ==
    /\ \E idx \in stat.calls, result \in ProseResults :
          LET settled == [stat EXCEPT !.calls = @ \ {idx},
                                      !.results = Append(@, result)]
              h == HtmlResume(settled, result, settings)
          IN  IF ~(stat.pc = "await" /\ stat.i = idx)
              THEN /\ stat' = settled
                   /\ UNCHANGED <<conv, notices>>
              ELSE IF h.pc = "rejected"
                   THEN /\ stat' = h
                        /\ conv' = [conv EXCEPT !.pc = "rejected"]
                        /\ UNCHANGED notices
                   ELSE IF h.pc = "await"
                        THEN /\ stat' = h
                             /\ UNCHANGED <<conv, notices>>
                        ELSE LET r == ConvLoop(ConvTake(conv, h.html), h,
                                               settings)
                             IN  /\ conv' = r.c
                                 /\ stat' = r.h
                                 /\ notices' = NoticesAfter(r.c)
    /\ UNCHANGED <<live, file, textVars, pluginVars>>

\* vault.modify settles: the file holds the output, and the notice of
\* line 91 is shown
vaultModifySettles ==
    /\ conv.pc = "modify"
    /\ file' = [content |-> conv.output, writes |-> file.writes + 1]
    /\ notices' = Append(notices, ConvertedNotice(conv.replacedCount))
    /\ conv' = [conv EXCEPT !.pc = "done"]
    /\ UNCHANGED <<live, stat, textVars, pluginVars>>

Next ==
    \/ onload
    \/ onunload
    \/ showMarkersChanged
    \/ showMarkersSaved
    \/ defaultDateLabelChanged
    \/ codeBlockProcessor
    \/ liveRenderSettles
    \/ convertCommand
    \/ vaultReadSettles
    \/ staticRenderSettles
    \/ vaultModifySettles

Spec == Init /\ [][Next]_vars

NextParse ==
    \/ CallParseHeader
    \/ CallParseTimelineSource

NextEscape == CallEscapeHtml

SpecParse == InitParse /\ [][NextParse]_vars

SpecEscape == InitEscape /\ [][NextEscape]_vars

(***************************************************************************)
(* Claims about the text functions.                                        *)
(***************************************************************************)
\* the first position at which sep occurs in s, 0 when it does not occur
FirstIndex(s, sep) ==
    LET at == {i \in 1..Len(s) : StartsWith(Drop(s, i - 1), sep)}
    IN  IF at = {} THEN 0 ELSE CHOOSE i \in at : \A j \in at : i <= j

\* the field a text gives: absent when it is empty after trimming
FieldOf(s) == IF Trim(s) = <<>> THEN Undefined ELSE Trim(s)

\* date and title taken around the first occurrence of sep
AroundFirst(s, sep) ==
    LET i == FirstIndex(s, sep)
    IN  [date  |-> FieldOf(SubSeq(s, 1, i - 1)),
         title |-> FieldOf(Drop(s, i + Len(sep) - 1))]

Pipe == <<"|">>
Dash == <<" ", "-", " ">>

\* C7: parseHeader takes date and title around the first pipe when the line
\* has a pipe (even when it also has " - "), else around the first " - ",
\* else the trimmed line is the title and there is no date; a field that is
\* empty after trimming is absent, never the empty string.
C7_HeaderPriority ==
    pcText = "parseHeader" =>
        /\ header.date # <<>>
        /\ header.title # <<>>
        /\ header =
             IF FirstIndex(input, Pipe) > 0 THEN AroundFirst(input, Pipe)
             ELSE IF FirstIndex(input, Dash) > 0 THEN AroundFirst(input, Dash)
                  ELSE [date |-> Undefined, title |-> FieldOf(input)]

\* a header line with a pipe and " - ", parsed into a date and a title
C7_Witness ==
    /\ pcText = "parseHeader"
    /\ FirstIndex(input, Pipe) > 0
    /\ FirstIndex(input, Dash) > 0
    /\ header.date # Undefined
    /\ header.title # Undefined

\* the first line of a block yields neither a date nor a title
NoHeaderFields(block) ==
    LET line == HeaderLineOf(block)
    IN  \/ isLikelyBodyStart(line)
        \/ parseHeader(line) = [date |-> Undefined, title |-> Undefined]

\* C6: every block whose first line yields neither a date nor a title is
\* kept verbatim as the body of its entry, and every entry has a date, a
\* title or a non-empty body.
C6_NoInformationLoss ==
    pcText = "parseTimelineSource" =>
        /\ Len(parsed) = Len(BlocksOf(input))
        /\ \A i \in 1..Len(parsed) :
              /\ NoHeaderFields(BlocksOf(input)[i])
                    => parsed[i].body = BlocksOf(input)[i]
              /\ \/ Truthy(parsed[i].date)
                 \/ Truthy(parsed[i].title)
                 \/ parsed[i].body # <<>>

\* the part of C6 the code keeps: the block is kept verbatim when its first
\* line yields no field and no line follows it, or when its first line is
\* classified as body content
C6_FallbackWhenNoBody ==
    pcText = "parseTimelineSource" =>
        \A i \in 1..Len(parsed) :
            LET block == BlocksOf(input)[i]
            IN  /\ (NoHeaderFields(block) /\ BodyLinesOf(block) = <<>>)
                      => parsed[i].body = block
                /\ isLikelyBodyStart(HeaderLineOf(block))
                      => parsed[i].body = block
                /\ \/ Truthy(parsed[i].date)
                   \/ Truthy(parsed[i].title)
                   \/ parsed[i].body # <<>>

Entities ==
    {<<AmpEntity, "&">>, <<LtEntity, "<">>, <<GtEntity, ">">>,
     <<QuotEntity, "\"">>, <<AposEntity, "'">>}

\* the five entities of a text replaced by their characters, left to right
RECURSIVE Decode(_)
Decode(s) ==
    IF s = <<>> THEN <<>>
    ELSE IF \E e \in Entities : StartsWith(s, e[1])
         THEN LET e == CHOOSE x \in Entities : StartsWith(s, x[1])
              IN  <<e[2]>> \o Decode(Drop(s, Len(e[1])))
         ELSE <<Head(s)>> \o Decode(Tail(s))

\* C8: an escaped text holds no raw "<", ">", double or single quote, every
\* "&" in it starts one of the five entities, and decoding the entities
\* gives the original text back.
C8_EscapeRoundTrip ==
    pcText = "escapeHtml" =>
        /\ \A i \in 1..Len(escaped) : escaped[i] \notin {"<", ">", "\"", "'"}
        /\ \A i \in 1..Len(escaped) :
              escaped[i] = "&" =>
                  \E e \in Entities : StartsWith(Drop(escaped, i - 1), e[1])
        /\ Decode(escaped) = input

\* a text that already holds the entity-like "&lt;" has been escaped
C8_Witness ==
    /\ pcText = "escapeHtml"
    /\ input = LtEntity
    /\ escaped = <<"&", "a", "m", "p", ";", "l", "t", ";">>

(***************************************************************************)
(* Claims about the renderers, the conversion and the plugin.              *)
(*                                                                         *)
(* In an invocation record, results is the history of the outcomes of its  *)
(* renderMarkdown calls, cfg0 the settings at its call and changed whether *)
(* the settings changed while it was suspended.                            *)
(***************************************************************************)
\* every value the settings take
Configs ==
    [showMarkers : BOOLEAN,
     defaultDateLabel : {<<>>, DEFAULT_SETTINGS.defaultDateLabel}]

\* the live output with its container, as class labels in document order
LiveLabels(l) == <<"timeline">> \o Labels(l.container)

\* renderTimelineHtml run to its end on given entries, with fixed settings
\* and the given outcomes of its renderMarkdown calls
RECURSIVE StaticRun(_, _, _)
StaticRun(h, results, s) ==
    IF h.pc = "await" /\ results # <<>>
    THEN StaticRun(HtmlResume([h EXCEPT !.calls = {}], Head(results), s),
                   Tail(results), s)
    ELSE h

StaticWith(entries, s, results) ==
    StaticRun(HtmlBegin([RenderIdle EXCEPT !.pc = "run",
                                           !.entries = entries], s),
              results, s)

\* the nodes (class and text) of a tree, in document order
RECURSIVE LiveFlat(_)
LiveFlat(nodes) ==
    IF nodes = <<>> THEN <<>>
    ELSE <<[cls |-> Head(nodes).cls, text |-> Head(nodes).text]>>
         \o LiveFlat(Head(nodes).children) \o LiveFlat(Tail(nodes))

\* the elements (class and text) of a markup string, in document order
RECURSIVE StaticFlat(_)
StaticFlat(html) ==
    IF html = <<>> THEN <<>>
    ELSE (IF Head(html).k = "open"
          THEN <<[cls |-> Head(html).cls,
                  text |-> IF Len(html) >= 2 /\ html[2].k \in {"text", "prose"}
                           THEN html[2].txt ELSE <<>>]>>
          ELSE <<>>)
         \o StaticFlat(Tail(html))

\* the longest prefix of a flat output before the next item
RECURSIVE UntilItem(_)
UntilItem(flat) ==
    IF flat = <<>> \/ Head(flat).cls = "timeline-item" THEN <<>>
    ELSE <<Head(flat)>> \o UntilItem(Tail(flat))

\* the items of a flat output: for each, the elements inside it
RECURSIVE ItemChunks(_)
ItemChunks(flat) ==
    IF flat = <<>> THEN <<>>
    ELSE IF Head(flat).cls = "timeline-item"
         THEN <<UntilItem(Tail(flat))>>
              \o ItemChunks(Drop(Tail(flat), Len(UntilItem(Tail(flat)))))
         ELSE ItemChunks(Tail(flat))

ClassCount(flat, cls) ==
    Cardinality({j \in 1..Len(flat) : flat[j].cls = cls})

\* the text of the element of a class in an item, Undefined without one
TextIn(chunk, cls) ==
    IF ClassCount(chunk, cls) = 0 THEN Undefined
    ELSE chunk[CHOOSE j \in 1..Len(chunk) : chunk[j].cls = cls].text

\* the flat output of a finished invocation
FlatOf(inv, isLive) ==
    IF isLive THEN LiveFlat(inv.container) ELSE StaticFlat(inv.html)

\* C1: with the same entries, settings and renderMarkdown outcomes, the
\* live output and the static output hold the same sections in the same
\* places, and the live output holds a body block only for an entry whose
\* trimmed body is not empty.
C1_SameSections ==
    (live.pc = "done" /\ ~live.changed) =>
        /\ LiveLabels(live) =
             OpenLabels(StaticWith(live.entries, live.cfg0, live.results).html)
        /\ LET items == ItemChunks(LiveFlat(live.container))
           IN  \A k \in 1..Len(items) :
                   ClassCount(items[k], "timeline-body") > 0
                       => Len(Trim(live.entries[k].body)) > 0

\* C2: when a renderMarkdown call of an invocation fails, the invocation is
\* rejected, it has no call in flight and starts none, the conversion has
\* taken no markup of the failed rendering and does not write the file, and
\* the live container holds no item.
C2_NoPartialOutput ==
    /\ stat.pc = "rejected" =>
          /\ stat.calls = {}
          /\ conv.pc = "rejected"
          /\ ClassCount([j \in 1..Len(conv.output) |->
                            [cls |-> conv.output[j].kind, text |-> <<>>]],
                        "html") = conv.replacedCount
          /\ conv.lastIndex < conv.match
          /\ file = [content |-> conv.content, writes |-> 0]
    /\ live.pc = "rejected" =>
          /\ live.calls = {}
          /\ ClassCount(LiveFlat(live.container), "timeline-item") = 0

\* the parts of C2 that hold of the code: everything but the live container
C2_ExceptLiveContainer ==
    /\ stat.pc = "rejected" =>
          /\ stat.calls = {}
          /\ conv.pc = "rejected"
          /\ ClassCount([j \in 1..Len(conv.output) |->
                            [cls |-> conv.output[j].kind, text |-> <<>>]],
                        "html") = conv.replacedCount
          /\ conv.lastIndex < conv.match
          /\ file = [content |-> conv.content, writes |-> 0]
    /\ live.pc = "rejected" => live.calls = {}

\* a rejected invocation takes no further step: it makes no later call
C2_RejectedIsFinal ==
    [][/\ stat.pc = "rejected" => UNCHANGED <<stat, conv, file, notices>>
       /\ live.pc = "rejected" => UNCHANGED live]_vars

\* the entries before entry i whose trimmed body is not empty
BodiesBefore(entries, i) ==
    Cardinality({j \in 1..(i - 1) :
                    j <= Len(entries) /\ Len(Trim(entries[j].body)) > 0})

\* the ways the live renderer renders one entry
LiveRenderingsOf(entry) ==
    {LiveItem(entry, s) : s \in Configs}
    \cup {Node("timeline-item", <<>>, FillBody(<<LiveItem(entry, s)>>,
                                           Trim(entry.body))[1].children) :
             s \in Configs}

\* the ways the static renderer renders one entry
StaticRenderingsOf(entry) ==
    {HtmlItemHead(entry, s) \o b \o <<Close, Close>> :
        s \in Configs,
        b \in {<<>>, HtmlBody(Trim(entry.body), "html")}}

\* a markup string holds the renderings of the entries, in their order
RECURSIVE StaticInOrder(_, _)
StaticInOrder(html, entries) ==
    IF entries = <<>> THEN html \in {<<>>, <<Close>>}
    ELSE \E r \in StaticRenderingsOf(Head(entries)) :
            /\ StartsWith(html, r)
            /\ StaticInOrder(Drop(html, Len(r)), Tail(entries))

\* a markup string without its opening tag and start marker
AfterStart(html) ==
    IF StartsWith(html, <<Open("timeline"), Open("timeline-start-marker"),
                          Close>>)
    THEN Drop(html, 3)
    ELSE Drop(html, 1)

\* the items of a live container
LiveItems(container) ==
    SelectSeq(container, LAMBDA nd : nd.cls = "timeline-item")

\* the calls of an invocation are made one after the other, for its
\* entries in order, and its output holds the items of its entries in order
Serialized(inv) ==
    /\ Cardinality(inv.calls) <= 1
    /\ inv.calls # {} => inv.pc = "await" /\ inv.calls = {inv.i}
    /\ inv.pc = "await" => inv.calls = {inv.i}
    /\ inv.pc \in {"await", "done"} =>
          Len(inv.results) = BodiesBefore(inv.entries, inv.i)

\* C3: in one render invocation, live or static, at most one renderMarkdown
\* call is in flight, the call for an entry is made only when the calls for
\* all entries before it have settled, and the items of the output are
\* those of the entries, in the order of the entries.
C3_Serialized ==
    /\ Serialized(live)
    /\ Serialized(stat)
    /\ live.pc = "done" =>
          /\ Len(LiveItems(live.container)) = Len(live.entries)
          /\ \A k \in 1..Len(live.entries) :
                LiveItems(live.container)[k]
                    \in LiveRenderingsOf(live.entries[k])
    /\ live.pc = "await" =>
          /\ Len(LiveItems(live.container)) = live.i
          /\ \A k \in 1..live.i :
                LiveItems(live.container)[k]
                    \in LiveRenderingsOf(live.entries[k])
    /\ (stat.pc = "done" /\ stat.entries # <<>>) =>
          StaticInOrder(AfterStart(stat.html), stat.entries)

\* the second call of a live render is in flight after the first settled
C3_Witness ==
    /\ live.pc = "await"
    /\ live.i = 2
    /\ live.results = <<"html">>
    /\ Len(LiveItems(live.container)) = 2

\* the timeline blocks of a document
BlocksIn(content) == {j \in 1..Len(content) : content[j].kind = "block"}

\* a document is another with every timeline block replaced by a static
\* rendering of the block's entries
Replaced(new, old) ==
    /\ Len(new) = Len(old)
    /\ \A j \in 1..Len(old) :
          IF old[j].kind = "block"
          THEN /\ new[j].kind = "html"
               /\ LET entries == parseTimelineSource(old[j].source)
                  IN  IF entries = <<>>
                      THEN new[j].html = StaticWith(<<>>, DEFAULT_SETTINGS,
                                                    <<>>).html
                      ELSE StaticInOrder(AfterStart(new[j].html), entries)
          ELSE new[j] = old[j]

\* C4 as claimed: a finished conversion has written the document if and
\* only if it found a timeline block; with none it shows the notice that
\* none was found; otherwise it has written once, every block is replaced
\* by its rendering, and the count shown is the number of blocks.
C4_WritesIffBlockFound ==
    /\ file.writes <= 1
    /\ conv.pc \in {"done", "rejected"} =>
          LET n == Cardinality(BlocksIn(conv.content))
          IN  /\ n = 0 => /\ file.writes = 0
                          /\ file.content = conv.content
                          /\ notices = <<NoneFoundNotice>>
              /\ n > 0 => /\ file.writes = 1
                          /\ Replaced(file.content, conv.content)
                          /\ notices = <<ConvertedNotice(n)>>

\* C4 amended: the same of a conversion that ends without a failed
\* renderMarkdown call; one that ends with a failed call has not written
\* the document and shown no notice.
C4_WritesIffFoundAndRendered ==
    /\ file.writes <= 1
    /\ file.writes = 1 => conv.pc = "done"
    /\ conv.pc = "done" =>
          LET n == Cardinality(BlocksIn(conv.content))
          IN  /\ n = 0 => /\ file.writes = 0
                          /\ file.content = conv.content
                          /\ notices = <<NoneFoundNotice>>
              /\ n > 0 => /\ file.writes = 1
                          /\ Replaced(file.content, conv.content)
                          /\ conv.replacedCount = n
                          /\ notices = <<ConvertedNotice(n)>>
    /\ conv.pc = "rejected" =>
          /\ file = [content |-> conv.content, writes |-> 0]
          /\ notices = <<>>

\* a conversion has replaced two blocks, one of them with a body
C4_Witness ==
    /\ conv.pc = "done"
    /\ file.writes = 1
    /\ conv.replacedCount = 2
    /\ stat.results # <<>>
    /\ notices = <<ConvertedNotice(2)>>

\* the markers of a flat output: one start marker before the first item and
\* one marker in each item
AllMarkers(flat) ==
    /\ ClassCount(flat, "timeline-start-marker") = 1
    /\ ClassCount(UntilItem(flat), "timeline-start-marker") = 1
    /\ \A k \in 1..Len(ItemChunks(flat)) :
          ClassCount(ItemChunks(flat)[k], "timeline-marker") = 1

NoMarkers(flat) ==
    /\ ClassCount(flat, "timeline-start-marker") = 0
    /\ ClassCount(flat, "timeline-marker") = 0

\* C5: the static markup of no entry holds one empty indicator and no
\* marker or item; that of n > 0 entries holds no marker when showMarkers is
\* false, and one start marker before the first item and one marker in each
\* of the n items when it is true.
C5_MarkerCounts ==
    stat.pc = "done" =>
        LET flat == StaticFlat(stat.html)
            n == Len(stat.entries)
        IN  /\ n = 0 => /\ ClassCount(flat, "timeline-empty") = 1
                        /\ ClassCount(flat, "timeline-item") = 0
                        /\ NoMarkers(flat)
            /\ n > 0 => /\ ClassCount(flat, "timeline-empty") = 0
                        /\ ClassCount(flat, "timeline-item") = n
            /\ (n > 0 /\ ~stat.cfg0.showMarkers) => NoMarkers(flat)
            /\ (n > 0 /\ stat.cfg0.showMarkers) => AllMarkers(flat)

\* C5 of the renderings during which the settings did not change
C5_WhenSettingsUnchanged ==
    (stat.pc = "done" /\ ~stat.changed) =>
        LET flat == StaticFlat(stat.html)
            n == Len(stat.entries)
        IN  /\ n = 0 => /\ ClassCount(flat, "timeline-empty") = 1
                        /\ ClassCount(flat, "timeline-item") = 0
                        /\ NoMarkers(flat)
            /\ n > 0 => /\ ClassCount(flat, "timeline-empty") = 0
                        /\ ClassCount(flat, "timeline-item") = n
            /\ (n > 0 /\ ~stat.cfg0.showMarkers) => NoMarkers(flat)
            /\ (n > 0 /\ stat.cfg0.showMarkers) => AllMarkers(flat)

\* the output of a finished invocation follows one configuration
OneConfiguration(inv, isLive) ==
    (inv.pc = "done" /\ inv.entries # <<>>) =>
        LET flat == FlatOf(inv, isLive)
            items == ItemChunks(flat)
        IN  /\ AllMarkers(flat) \/ NoMarkers(flat)
            /\ \A j, k \in 1..Len(items) :
                  (inv.entries[j].date = Undefined
                      /\ inv.entries[k].date = Undefined)
                  => TextIn(items[j], "timeline-date")
                        = TextIn(items[k], "timeline-date")

\* C9: the finished output of a render invocation has a start marker and a
\* marker in every item or no marker at all, and its entries without a date
\* of their own all show the same fallback label, also when the settings
\* change while the invocation is suspended.
C9_OneConfiguration ==
    /\ OneConfiguration(live, TRUE)
    /\ OneConfiguration(stat, FALSE)

\* C10: when the plugin is loaded and no show-markers handler is in
\* progress, the body carries the class exactly when showMarkers is false;
\* once the plugin is unloaded the body does not carry the class.
C10_MarkerVisibility ==
    /\ (plugin = "loaded" /\ saving = 0) => (bodyClass <=> ~settings.showMarkers)
    /\ plugin = "unloaded" => ~bodyClass

\* the part of C10 about the loaded plugin
C10_WhileLoaded ==
    (plugin = "loaded" /\ saving = 0) => (bodyClass <=> ~settings.showMarkers)

=============================================================================
